---- MODULE Spec2Model ----
(***************************************************************************)
(* Model of scripts/bchat.ts: a command-line chat session in which a       *)
(* completion service may request one of four registered functions, two of *)
(* which call the Redox API through a client-credentials token exchange.   *)
(*                                                                         *)
(* Strings built by template literals are modelled as tuples of their      *)
(* parts, user input lines as tuples of one-character strings, and the     *)
(* text of function-call arguments as members of RawArguments, whose JSON  *)
(* reading is given by JSONParse.                                          *)
(***************************************************************************)
EXTENDS Integers, Sequences, FiniteSets, TLC

VARIABLES
    pc,                 \* position of the top-level script
    messages,           \* messageStore.messages
    lastInput,          \* the line last returned by stdio.question
    output,             \* the value last returned by completeMessages
    turn,               \* number of user turns started
    signedAssertion,    \* createRedox's signedAssertion
    functionName,       \* completeMessages' functionName while a func is pending
    redoxCall,          \* the redox operation in progress, with its arguments
    jwtAccessToken,     \* the operation's jwtAccessToken
    error,              \* the error that ended the process, if any
    completionRequests, \* requests sent to openai.chat.completions.create
    tokenRequests,      \* requests sent to the token endpoint
    tokenResponses,     \* responses received from the token endpoint
    apiRequests,        \* requests sent to the generic and FHIR endpoints
    apiResponses,       \* responses received from those endpoints
    invocations         \* calls of functionDescription.func

vars == <<pc, messages, lastInput, output, turn, signedAssertion, functionName,
          redoxCall, jwtAccessToken, error, completionRequests, tokenRequests,
          tokenResponses, apiRequests, apiResponses, invocations>>

\* ------------------------------------------------------------------ bounds

\* Number of user turns a session may start.
MaxTurns == 2

\* ------------------------------------------------------------- basic values

\* null / undefined content, and absent optional parts, are empty tuples.
Null == << >>

NoError == [name |-> "", status |-> 0, message |-> Null]

Last(s) == s[Len(s)]

\* ----------------------------------------------------------- String.toLowerCase

UpperCase == <<"Q", "U", "I", "T", "E", "X", "H">>
LowerCase == <<"q", "u", "i", "t", "e", "x", "h">>

toLowerCaseChar(c) ==
    IF \E i \in DOMAIN UpperCase : UpperCase[i] = c
    THEN LowerCase[CHOOSE i \in DOMAIN UpperCase : UpperCase[i] = c]
    ELSE c

toLowerCase(s) == [i \in DOMAIN s |-> toLowerCaseChar(s[i])]

\* Lines the user may type.
Inputs ==
    { << >>,
      <<"h", "i">>,
      <<"q", "u", "i", "t">>,
      <<"Q", "U", "I", "T">>,
      <<"E", "x", "i", "t">> }

\* ------------------------------------------------------------- JSON.parse

\* Texts the completion service may send as function_call.arguments.
RawArguments ==
    { "not json",
      "null",
      "{\"location\":\"Austin\",\"unit\":\"kelvin\"}",
      "{\"location\":\"Austin\",\"unit\":\"celsius\",\"zip\":\"78701\"}",
      "{\"FirstName\":\"Timothy\",\"LastName\":\"Bixby\",\"DOB\":\"2008-01-06\"}" }

JString(s) == [type |-> "string", value |-> s]
JObject(f) == [type |-> "object", fields |-> f]
JNull == [type |-> "null", fields |-> Null]

\* JSON.parse: the value read from a text, or a thrown SyntaxError.
JSONParse(text) ==
    CASE text = "null" -> [threw |-> FALSE, value |-> JNull]
      [] text = "{\"location\":\"Austin\",\"unit\":\"kelvin\"}" ->
            [threw |-> FALSE,
             value |-> JObject("location" :> JString("Austin")
                               @@ "unit" :> JString("kelvin"))]
      [] text = "{\"location\":\"Austin\",\"unit\":\"celsius\",\"zip\":\"78701\"}" ->
            [threw |-> FALSE,
             value |-> JObject("location" :> JString("Austin")
                               @@ "unit" :> JString("celsius")
                               @@ "zip" :> JString("78701"))]
      [] text = "{\"FirstName\":\"Timothy\",\"LastName\":\"Bixby\",\"DOB\":\"2008-01-06\"}" ->
            [threw |-> FALSE,
             value |-> JObject("FirstName" :> JString("Timothy")
                               @@ "LastName" :> JString("Bixby")
                               @@ "DOB" :> JString("2008-01-06"))]
      [] OTHER -> [threw |-> TRUE, value |-> JNull]

\* ------------------------------------------------------- function registry

\* One field of a z.object schema: z.string() has an empty enum.
Field(key, optional, enum) == [key |-> key, optional |-> optional, enum |-> enum]

getCurrentWeatherSchema ==
    << Field("location", FALSE, {}),
       Field("unit", TRUE, {"celsius", "fahrenheit"}) >>

patientSearchSchema ==
    << Field("FirstName", FALSE, {}),
       Field("LastName", FALSE, {}),
       Field("DOB", FALSE, {}) >>

emptySchema == << >>

functionDescriptions ==
    << [name |-> "getCurrentWeather", schema |-> getCurrentWeatherSchema],
       [name |-> "getPatients", schema |-> emptySchema],
       [name |-> "patientSearch", schema |-> patientSearchSchema],
       [name |-> "getKevaGreenDetails", schema |-> emptySchema] >>

\* Array.prototype.find: the first description with the name, or none.
find(name) ==
    LET hits == {i \in DOMAIN functionDescriptions :
                    functionDescriptions[i].name = name}
    IN  IF hits = {} THEN Null
        ELSE <<functionDescriptions[CHOOSE i \in hits : \A j \in hits : i <= j]>>

\* Names the completion service may put in function_call.name.
RequestedNames ==
    {functionDescriptions[i].name : i \in DOMAIN functionDescriptions}
        \cup {"getWeather"}

\* ------------------------------------------------------- schema.safeParse

FieldIssue(f, o) ==
    IF f.key \notin DOMAIN o
    THEN IF f.optional THEN Null ELSE <<f.key, "Required">>
    ELSE IF o[f.key].type # "string" THEN <<f.key, "invalid_type">>
    ELSE IF f.enum # {} /\ o[f.key].value \notin f.enum
         THEN <<f.key, "invalid_enum_value">>
    ELSE Null

RECURSIVE FieldIssues(_, _, _)
FieldIssues(schema, o, i) ==
    IF i > Len(schema) THEN Null
    ELSE FieldIssue(schema[i], o) \o FieldIssues(schema, o, i + 1)

SchemaKeys(schema) == {schema[i].key : i \in DOMAIN schema}

\* safeParse of a z.object: the issues found, and on success the data, which
\* keeps only the keys the schema declares.
safeParse(schema, v) ==
    IF v.type # "object"
    THEN [success |-> FALSE, data |-> Null, message |-> <<"", "invalid_type">>]
    ELSE LET issues == FieldIssues(schema, v.fields, 1)
         IN  [success |-> issues = Null,
              data |-> IF issues = Null
                       THEN [k \in DOMAIN v.fields \cap SchemaKeys(schema) |->
                                v.fields[k]]
                       ELSE Null,
              message |-> issues]

\* ------------------------------------------------------------ func bodies

\* JSON.stringify of an object, as the text between its braces.
JSONStringify(value) == <<"{">> \o value \o <<"}">>

getCurrentWeather(data) ==
    [type |-> "string",
     value |-> JSONStringify(
         << "location", data["location"].value,
            "temperature", "72",
            "unit", IF "unit" \in DOMAIN data THEN data["unit"].value
                    ELSE "fahrenheit",
            "forecast", "sunny", "windy" >>)]

getPatients ==
    [type |-> "object",
     value |-> << "patients",
                  "FirstName", "Timothy", "LastName", "Bixby", "DOB", "2008-01-06",
                  "given", "Keva", "family", "Green", "birthdate", "1995-08-26" >>]

\* patientSearch calls redox.post, getKevaGreenDetails calls redox.fhirPost.
patientSearch(demographics) ==
    [op |-> "post", api |-> "",
     body |-> [DataModel |-> "PatientSearch", fields |-> demographics]]

getKevaGreenDetails ==
    [op |-> "fhirPost", api |-> "Patient/_search",
     body |-> [DataModel |-> "",
               fields |-> "given" :> JString("Keva")
                          @@ "family" :> JString("Green")
                          @@ "birthdate" :> JString("1995-08-26")]]

callsRedox(name) == name \in {"patientSearch", "getKevaGreenDetails"}

\* The value a func resolves to without a network call.
funcOutput(name, data) ==
    IF name = "getCurrentWeather" THEN getCurrentWeather(data) ELSE getPatients

funcRedoxCallSwapped(name, data) ==
    IF name = "patientSearch" THEN getKevaGreenDetails ELSE patientSearch(data)

\* The redox operation a func starts.
funcRedoxCall(name, data) ==
    IF name = "patientSearch" THEN patientSearch(data) ELSE getKevaGreenDetails

\* ------------------------------------------------------------ createRedox

endpoint == "https://api.redoxengine.com/endpoint"
fhirEndpoint == "https://api.redoxengine.com/fhir/R4/redox-fhir-sandbox/Development/"
aud == "https://api.redoxengine.com/v2/auth/token"

\* Values crypto.getRandomValues may give the jti.
Jtis == {"0a1b2c3d4e5f6071", "8192a3b4c5d6e7f8"}

\* The claims of the signed assertion (the issue time is left out).
getSignedAssertion(clientId, scope, kid, audience, jti) ==
    [alg |-> "RS384", kid |-> kid, aud |-> audience, iss |-> clientId,
     sub |-> clientId, scope |-> scope, jti |-> jti]

\* The form posted to the token endpoint.
requestJwtAccessToken(assertion, scope) ==
    [url |-> aud,
     grant_type |-> "client_credentials",
     client_assertion_type |->
         "urn:ietf:params:oauth:client-assertion-type:jwt-bearer",
     client_assertion |-> assertion,
     scope |-> scope]

redoxFetchCachedToken(call, token) ==
    [op |-> call.op,
     method |-> IF call.op = "get" THEN "GET" ELSE "POST",
     url |-> IF call.op = "fhirPost" THEN <<fhirEndpoint, call.api>>
             ELSE <<endpoint, call.api>>,
     Authorization |-> IF apiRequests = << >>
                       THEN <<"Bearer ", token.access_token>>
                       ELSE apiRequests[1].Authorization,
     ContentType |-> IF call.op = "get" THEN "" ELSE "application/json",
     body |-> call.body]

\* The request a redox operation sends once it holds a token.
redoxFetch(call, token) ==
    [op |-> call.op,
     method |-> IF call.op = "get" THEN "GET" ELSE "POST",
     url |-> IF call.op = "fhirPost" THEN <<fhirEndpoint, call.api>>
             ELSE <<endpoint, call.api>>,
     Authorization |-> <<"Bearer ", token.access_token>>,
     ContentType |-> IF call.op = "get" THEN "" ELSE "application/json",
     body |-> call.body]

okBelow500(res) == res.status < 500

\* Response.ok
ok(res) == res.status >= 200 /\ res.status <= 299

assertResponseOkNoStatus(res) ==
    [name |-> "Error", status |-> 0, message |-> <<res.statusText>>]

\* The error assertResponseOk throws for a response that is not ok.
assertResponseOk(res) ==
    [name |-> "Error", status |-> res.status,
     message |-> <<res.statusText>> \o res.body]

AccessTokens == {"tokenA", "tokenB"}

TokenResponses ==
    { [status |-> 200, statusText |-> "OK", body |-> <<t>>] : t \in AccessTokens }
    \cup { [status |-> 401, statusText |-> "Unauthorized", body |-> <<"invalid_client">>],
           [status |-> 500, statusText |-> "Internal Server Error", body |-> <<"oops">>] }

\* Response.json of a token response.
tokenJson(res) == [access_token |-> res.body[1]]

ApiResponses ==
    { [status |-> 200, statusText |-> "OK", body |-> <<"Patients", "found">>],
      [status |-> 401, statusText |-> "Unauthorized", body |-> <<"expired">>],
      [status |-> 500, statusText |-> "Internal Server Error", body |-> <<"oops">>] }

\* ------------------------------------------------------------ messages

Message(role, content, name, call) ==
    [role |-> role, content |-> content, name |-> name, function_call |-> call]

addFirst(store, message) == <<message>> \o store

\* messageStore.add: push the message onto the end of the store.
add(store, message) == Append(store, message)

\* The answer the completion service gives.
Contents == { <<"It is sunny.">> }

\* Assistant messages the completion service may return; it requests a
\* function only when the request declared functions.
CompletionMessages(functions) ==
    { Message("assistant", c, "", Null) : c \in Contents }
    \cup IF functions
         THEN { Message("assistant", Null, "",
                        <<[name |-> n, arguments |-> a]>>) :
                    n \in RequestedNames, a \in RawArguments }
         ELSE {}

\* ------------------------------------------------------------ the script

Init ==
    /\ pc = "createRedox"
    /\ messages = << >>
    /\ lastInput = Null
    /\ output = Null
    /\ turn = 0
    /\ signedAssertion = Null
    /\ functionName = ""
    /\ redoxCall = Null
    /\ jwtAccessToken = Null
    /\ error = NoError
    /\ completionRequests = << >>
    /\ tokenRequests = << >>
    /\ tokenResponses = << >>
    /\ apiRequests = << >>
    /\ apiResponses = << >>
    /\ invocations = << >>

REDOX_API_CLIENT_ID == "client-id"
REDOX_API_SCOPE == "fhir:development"
REDOX_API_PUBLIC_KID == "kid"

systemMessage == Message("system", <<"You are a helpful assistant.">>, "", Null)

throwCaught(e) ==
    /\ pc' = "question"
    /\ error' = e

\* The process ends with an uncaught error.
throw(e) ==
    /\ pc' = "crashed"
    /\ error' = e

\* Start of the script: createRedox signs the assertion, or fails on key
\* material that cannot be read; then the message store gets the system
\* message and the prompt loop starts.
createRedox ==
    /\ pc = "createRedox"
    /\ \E keyReadable \in BOOLEAN, jti \in Jtis :
          IF keyReadable
          THEN /\ signedAssertion' =
                      <<getSignedAssertion(REDOX_API_CLIENT_ID, REDOX_API_SCOPE,
                                           REDOX_API_PUBLIC_KID, aud, jti)>>
               /\ messages' = <<systemMessage>>
               /\ pc' = "question"
               /\ UNCHANGED error
          ELSE /\ throw([name |-> "KeyError", status |-> 0,
                         message |-> <<"malformed key">>])
               /\ UNCHANGED <<signedAssertion, messages>>
    /\ UNCHANGED <<lastInput, output, turn, functionName, redoxCall,
                   jwtAccessToken, completionRequests, tokenRequests,
                   tokenResponses, apiRequests, apiResponses, invocations>>

quit == <<"q", "u", "i", "t">>
exit == <<"e", "x", "i", "t">>

hasLengthOrNot(input) == TRUE

\* input.length, as the condition of the loop's else-if.
hasLength(input) == Len(input) # 0

isSentinelCaseSensitive(input) == input = quit \/ input = exit

\* The test that ends the prompt loop.
isSentinel(input) == toLowerCase(input) = quit \/ toLowerCase(input) = exit

completionRequestDeclaring(msgs, functions, n) ==
    [messages |-> msgs, functions |-> TRUE, turn |-> n]

\* A request to openai.chat.completions.create over the store.
completionRequest(msgs, functions, n) ==
    [messages |-> msgs, functions |-> functions, turn |-> n]

\* One pass of the prompt loop: read a line, then break, start a turn, or
\* prompt again.
mainLoop ==
    /\ pc = "question"
    /\ \E input \in Inputs :
          /\ lastInput' = input
          /\ IF isSentinel(input)
             THEN /\ pc' = "closed"
                  /\ UNCHANGED <<messages, turn, completionRequests>>
             ELSE IF hasLength(input)
             THEN /\ turn < MaxTurns
                  /\ turn' = turn + 1
                  /\ messages' = add(messages, Message("user", input, "", Null))
                  /\ completionRequests' =
                        Append(completionRequests,
                               completionRequest(messages', TRUE, turn + 1))
                  /\ pc' = "completion"
             ELSE UNCHANGED <<pc, messages, turn, completionRequests>>
    /\ UNCHANGED <<output, signedAssertion, functionName, redoxCall,
                   jwtAccessToken, error, tokenRequests, tokenResponses,
                   apiRequests, apiResponses, invocations>>

returnNothing(value) ==
    /\ output' = Null
    /\ pc' = "question"

\* completeMessages returns to the prompt loop, which prints the output.
return(value) ==
    /\ output' = value
    /\ pc' = "question"

\* The content of the function message for a func's output.
functionContent(functionOutput) ==
    IF functionOutput.type = "string" THEN functionOutput.value
    ELSE JSONStringify(functionOutput.value)

functionMessageUnnamed(name, functionOutput) ==
    Message("function", functionContent(functionOutput), "", Null)

\* The function message for a func's output.
functionMessage(name, functionOutput) ==
    Message("function", functionContent(functionOutput), name, Null)

\* completeMessages after func has resolved: add the function message and
\* request the second completion, without function declarations.
addFunctionOutput(msgs, name, functionOutput) ==
    /\ messages' = add(msgs, functionMessage(name, functionOutput))
    /\ completionRequests' =
          Append(completionRequests, completionRequest(messages', FALSE, turn))
    /\ pc' = "functionCompletion"

funcArgumentUnvalidated(parseResult, functionArguments) == functionArguments

\* The argument func is called with.
funcArgument(parseResult, functionArguments) == parseResult.data

\* completeMessages from the first completion's response up to its next
\* await or return.
completionMessage ==
    /\ pc = "completion"
    /\ \E msg \in CompletionMessages(TRUE) :
        LET msgs == add(messages, msg) IN
        IF msg.function_call = Null
        THEN /\ messages' = msgs
             /\ return(msg.content)
             /\ UNCHANGED <<functionName, redoxCall, error, completionRequests,
                            tokenRequests, invocations>>
        ELSE
        LET name == msg.function_call[1].name
            functionDescription == find(name)
        IN
        IF functionDescription = Null
        THEN /\ messages' = msgs
             /\ return(<<"Function named ", name, " not found">>)
             /\ UNCHANGED <<functionName, redoxCall, error, completionRequests,
                            tokenRequests, invocations>>
        ELSE
        LET parsed == JSONParse(msg.function_call[1].arguments) IN
        IF parsed.threw
        THEN /\ messages' = msgs
             /\ throw([name |-> "SyntaxError", status |-> 0,
                       message |-> <<"Unexpected token">>])
             /\ UNCHANGED <<output, functionName, redoxCall, completionRequests,
                            tokenRequests, invocations>>
        ELSE
        LET parseResult == safeParse(functionDescription[1].schema, parsed.value) IN
        IF ~parseResult.success
        THEN /\ messages' = msgs
             /\ return(<<"Error parsing arguments for function ", name, ": ">>
                          \o parseResult.message)
             /\ UNCHANGED <<functionName, redoxCall, error, completionRequests,
                            tokenRequests, invocations>>
        ELSE
        LET argument == funcArgument(parseResult, parsed.value.fields) IN
        /\ invocations' = Append(invocations,
                                 [name |-> name, input |-> argument, turn |-> turn])
        /\ IF callsRedox(name)
           THEN /\ messages' = msgs
                /\ functionName' = name
                /\ redoxCall' = <<funcRedoxCall(name, argument)>>
                /\ tokenRequests' =
                      Append(tokenRequests,
                             requestJwtAccessToken(signedAssertion[1],
                                                   REDOX_API_SCOPE))
                /\ pc' = "token"
                /\ UNCHANGED <<output, error, completionRequests>>
           ELSE /\ addFunctionOutput(msgs, name, funcOutput(name, argument))
                /\ UNCHANGED <<output, functionName, redoxCall, error,
                               tokenRequests>>
    /\ UNCHANGED <<lastInput, turn, signedAssertion, jwtAccessToken,
                   tokenResponses, apiRequests, apiResponses>>

\* requestJwtAccessToken from the token endpoint's response on: a response
\* that is not ok throws, any other gives the token the operation sends its
\* own request with.
tokenResponse ==
    /\ pc = "token"
    /\ \E res \in TokenResponses :
          /\ tokenResponses' = Append(tokenResponses, res)
          /\ IF ~ok(res)
             THEN /\ throw(assertResponseOk(res))
                  /\ UNCHANGED <<jwtAccessToken, apiRequests>>
             ELSE /\ jwtAccessToken' = <<tokenJson(res)>>
                  /\ apiRequests' =
                        Append(apiRequests,
                               redoxFetch(redoxCall[1], tokenJson(res)))
                  /\ pc' = "api"
                  /\ UNCHANGED error
    /\ UNCHANGED <<messages, lastInput, output, turn, signedAssertion,
                   functionName, redoxCall, completionRequests, tokenRequests,
                   apiResponses, invocations>>

\* get / post / fhirPost from the endpoint's response on, and completeMessages
\* after func has resolved.
apiResponse ==
    /\ pc = "api"
    /\ \E res \in ApiResponses :
          /\ apiResponses' = Append(apiResponses, res)
          /\ IF ~ok(res)
             THEN /\ throw(assertResponseOk(res))
                  /\ UNCHANGED <<messages, completionRequests, functionName,
                                 redoxCall, jwtAccessToken>>
             ELSE /\ addFunctionOutput(messages, functionName,
                                       [type |-> "object", value |-> res.body])
                  /\ functionName' = ""
                  /\ redoxCall' = Null
                  /\ jwtAccessToken' = Null
                  /\ UNCHANGED error
    /\ UNCHANGED <<lastInput, output, turn, signedAssertion, tokenRequests,
                   tokenResponses, apiRequests, invocations>>

\* completeMessages from the second completion's response on.
functionCompletionMessage ==
    /\ pc = "functionCompletion"
    /\ \E msg \in CompletionMessages(FALSE) :
          /\ messages' = add(messages, msg)
          /\ return(msg.content)
    /\ UNCHANGED <<lastInput, turn, signedAssertion, functionName, redoxCall,
                   jwtAccessToken, error, completionRequests, tokenRequests,
                   tokenResponses, apiRequests, apiResponses, invocations>>

CompletionErrorStatuses == {429, 500}

completionErrorRetried ==
    /\ pc \in {"completion", "functionCompletion"}
    /\ \E status \in CompletionErrorStatuses :
          error' = [name |-> "APIError", status |-> status,
                    message |-> <<"completion failed">>]
    /\ UNCHANGED <<pc, messages, lastInput, output, turn, signedAssertion,
                   functionName, redoxCall, jwtAccessToken, completionRequests,
                   tokenRequests, tokenResponses, apiRequests, apiResponses,
                   invocations>>

\* openai.chat.completions.create rejects.
completionError ==
    /\ pc \in {"completion", "functionCompletion"}
    /\ \E status \in CompletionErrorStatuses :
          throw([name |-> "APIError", status |-> status,
                 message |-> <<"completion failed">>])
    /\ UNCHANGED <<messages, lastInput, output, turn, signedAssertion,
                   functionName, redoxCall, jwtAccessToken, completionRequests,
                   tokenRequests, tokenResponses, apiRequests, apiResponses,
                   invocations>>

Next ==
    \/ createRedox
    \/ mainLoop
    \/ completionMessage
    \/ tokenResponse
    \/ apiResponse
    \/ functionCompletionMessage
    \/ completionError

Spec == Init /\ [][Next]_vars

\* A pending network call gets its response, good or bad.
Responses ==
    \/ completionMessage
    \/ tokenResponse
    \/ apiResponse
    \/ functionCompletionMessage
    \/ completionError

\* The script when no network call hangs for ever.
FairSpec == Spec /\ WF_vars(Responses)

\* ------------------------------------------------------------ properties

\* The turn a message of the store belongs to.
TurnOf(i) == Cardinality({j \in 1..i : messages[j].role = "user"})

InvocationsIn(t) == {k \in DOMAIN invocations : invocations[k].turn = t}

FollowUpsIn(t) ==
    {k \in DOMAIN completionRequests :
        completionRequests[k].turn = t /\ ~completionRequests[k].functions}

\* Positions of the assistant messages that request a function.
Calls ==
    {i \in DOMAIN messages :
        messages[i].role = "assistant" /\ messages[i].function_call # Null}

CallAt(i) == messages[i].function_call[1]

Registered(call) ==
    \E k \in DOMAIN functionDescriptions : functionDescriptions[k].name = call.name

SchemaOf(call) ==
    functionDescriptions[CHOOSE k \in DOMAIN functionDescriptions :
                            functionDescriptions[k].name = call.name].schema

ArgumentsParse(call) == ~JSONParse(call.arguments).threw

Validation(call) == safeParse(SchemaOf(call), JSONParse(call.arguments).value)

ValidCall(call) ==
    Registered(call) /\ ArgumentsParse(call) /\ Validation(call).success

\* C1: a turn whose first completion requests a registered function with
\* arguments that parse and satisfy its schema calls that func exactly once,
\* with the validated input, and every follow-up completion request of the
\* turn is issued over a store whose last message is the function message
\* named after the requested function.
C1_ValidCallDispatched ==
    \A i \in Calls :
        ValidCall(CallAt(i)) =>
            /\ Cardinality(InvocationsIn(TurnOf(i))) = 1
            /\ \A k \in InvocationsIn(TurnOf(i)) :
                  /\ invocations[k].name = CallAt(i).name
                  /\ invocations[k].input = Validation(CallAt(i)).data
            /\ \A k \in FollowUpsIn(TurnOf(i)) :
                  LET sent == completionRequests[k].messages IN
                  /\ Len(sent) = i + 1
                  /\ sent[i] = messages[i]
                  /\ sent[i + 1].role = "function"
                  /\ sent[i + 1].name = CallAt(i).name
            /\ (pc = "functionCompletion" /\ TurnOf(i) = turn) =>
                  FollowUpsIn(turn) # {}

C1_Witness ==
    /\ pc = "functionCompletion"
    /\ Last(messages).role = "function"
    /\ Last(messages).name = "getCurrentWeather"
    /\ Len(invocations) = 1
    /\ "zip" \notin DOMAIN invocations[1].input

\* C2: when the requested function is not in the registry, no func is called
\* and a function message with content "Function named <name> not found" is
\* added to the store.
C2_NotFoundAppended ==
    \A i \in Calls :
        ~Registered(CallAt(i)) =>
            /\ InvocationsIn(TurnOf(i)) = {}
            /\ i < Len(messages)
            /\ messages[i + 1].role = "function"
            /\ messages[i + 1].content =
                  <<"Function named ", CallAt(i).name, " not found">>

\* C3: when the function is registered but the parsed arguments fail its
\* schema, func is not called and a function message naming the function
\* and describing the validation failure is added to the store.
C3_InvalidAppended ==
    \A i \in Calls :
        (Registered(CallAt(i)) /\ ArgumentsParse(CallAt(i))
            /\ ~Validation(CallAt(i)).success) =>
            /\ InvocationsIn(TurnOf(i)) = {}
            /\ i < Len(messages)
            /\ messages[i + 1].role = "function"
            /\ messages[i + 1].name = CallAt(i).name
            /\ messages[i + 1].content =
                  <<"Error parsing arguments for function ", CallAt(i).name, ": ">>
                      \o Validation(CallAt(i)).message

TransportOrSigningErrors == {"Error", "APIError", "KeyError"}

\* C4: whatever the assistant's response, the process ends with an error
\* only on a transport or signing failure.
C4_ModelOutputNeverFatal ==
    pc = "crashed" => error.name \in TransportOrSigningErrors

\* C5: no two token requests carry the same assertion (the same jti).
C5_AssertionPerTokenRequest ==
    \A i, j \in DOMAIN tokenRequests :
        i # j =>
            tokenRequests[i].client_assertion.jti
                # tokenRequests[j].client_assertion.jti

Is2xx(res) == res.status \in 200..299

RedoxInvocations == {k \in DOMAIN invocations : callsRedox(invocations[k].name)}

\* C6: every redox operation makes one token request before its own request,
\* and sends its own request with the token that token request returned.
C6_OwnTokenPerOperation ==
    /\ Len(tokenRequests) = Cardinality(RedoxInvocations)
    /\ Len(apiRequests) <= Len(tokenResponses)
    /\ Len(tokenResponses) <= Len(tokenRequests)
    /\ Len(tokenRequests) <= Len(apiRequests) + 1
    /\ \A k \in DOMAIN apiRequests :
          /\ Is2xx(tokenResponses[k])
          /\ apiRequests[k].Authorization =
                <<"Bearer ", tokenResponses[k].body[1]>>

C6_Witness ==
    /\ Len(apiRequests) = 2
    /\ apiRequests[1].Authorization # apiRequests[2].Authorization
    /\ apiRequests[1].op = "post"
    /\ apiRequests[2].op = "fhirPost"

EndsWith(s, tail) ==
    /\ Len(tail) <= Len(s)
    /\ SubSeq(s, Len(s) - Len(tail) + 1, Len(s)) = tail

\* C7: a token response that is not 2xx ends the operation with an error
\* carrying the status and the body, after one token request and without a
\* request to the generic or FHIR endpoint for that operation.
C7_TokenFailureIsFatal ==
    \A k \in DOMAIN tokenResponses :
        ~Is2xx(tokenResponses[k]) =>
            /\ pc = "crashed"
            /\ error.status = tokenResponses[k].status
            /\ EndsWith(error.message, tokenResponses[k].body)
            /\ k = Len(tokenRequests)
            /\ Len(tokenRequests) = Cardinality(RedoxInvocations)
            /\ Len(apiRequests) = k - 1

C7_Witness ==
    /\ Len(tokenResponses) = 2
    /\ tokenResponses[2].status = 401
    /\ Len(apiRequests) = 1
    /\ pc = "crashed"

\* C8: a response that is not 2xx to a func's redox request ends the session:
\* the request is not repeated, no function message is added for the turn, no
\* follow-up completion is requested and no further input is read.
C8_ApiFailureIsFatal ==
    \A k \in DOMAIN apiResponses :
        ~Is2xx(apiResponses[k]) =>
            /\ pc = "crashed"
            /\ error.status = apiResponses[k].status
            /\ k = Len(apiRequests)
            /\ k = Len(apiResponses)
            /\ Len(messages) \in Calls
            /\ TurnOf(Len(messages)) = turn
            /\ invocations[Len(invocations)].turn = turn
            /\ FollowUpsIn(turn) = {}
            /\ messages[Len(messages) - 1].content = lastInput

C8_Witness ==
    /\ Len(apiResponses) = 2
    /\ apiResponses[2].status = 500
    /\ Is2xx(apiResponses[1])
    /\ pc = "crashed"

\* C9: when a turn has completed without a fatal error, the last message of
\* the store is an assistant message without a function call whose content
\* is the output given to the user.
C9_TurnEndsOnAnswer ==
    (pc = "question" /\ turn > 0) =>
        /\ Last(messages).role = "assistant"
        /\ Last(messages).function_call = Null
        /\ Last(messages).content = output

\* An input that spells the word in any letter case.
SpellsAnyCase(input, word) ==
    /\ Len(input) = Len(word)
    /\ \A i \in DOMAIN word :
          \/ input[i] = word[i]
          \/ \E j \in DOMAIN LowerCase :
                LowerCase[j] = word[i] /\ UpperCase[j] = input[i]

\* C10: on the input quit or exit, in any letter case, the prompt loop ends
\* at once, without adding a message or requesting a completion, then or
\* later.
C10_SentinelEndsSession ==
    /\ [][(pc = "question"
            /\ (SpellsAnyCase(lastInput', quit) \/ SpellsAnyCase(lastInput', exit)))
          => (/\ pc' = "closed"
              /\ messages' = messages
              /\ completionRequests' = completionRequests)]_vars
    /\ [][pc = "closed" => UNCHANGED <<pc, messages, completionRequests>>]_vars

C10_Witness ==
    /\ pc = "closed"
    /\ lastInput = <<"E", "x", "i", "t">>
    /\ turn = 1
    /\ Len(completionRequests) = 1

\* C11: the store only grows at its end: each step leaves the messages it
\* held in place, and what it appends is the system message at set-up, the
\* user message that starts a turn, or an assistant or function message of
\* the turn in progress.
C11_AppendOnly ==
    [][/\ Len(messages') >= Len(messages)
       /\ SubSeq(messages', 1, Len(messages)) = messages
       /\ \A i \in (Len(messages) + 1)..Len(messages') :
             \/ /\ messages'[i].role = "system"
                /\ i = 1
                /\ pc = "createRedox"
             \/ /\ messages'[i].role = "user"
                /\ pc = "question"
                /\ turn' = turn + 1
             \/ /\ messages'[i].role \in {"assistant", "function"}
                /\ pc \in {"completion", "api", "functionCompletion"}
                /\ turn' = turn
                /\ turn >= 1]_vars

C11_Witness ==
    /\ pc = "question"
    /\ turn = 2
    /\ Len(messages) = 9
    /\ messages[4].role = "function"
    /\ messages[8].role = "function"

\* C12: every function message of the store is named after the function
\* requested by an assistant message that stands earlier in the store.
C12_FunctionMessageNamesCall ==
    \A i \in DOMAIN messages :
        messages[i].role = "function" =>
            \E j \in Calls : j < i /\ CallAt(j).name = messages[i].name

C12_Witness ==
    \E i \in DOMAIN messages :
        /\ messages[i].role = "function"
        /\ messages[i].name = "patientSearch"
        /\ i - 1 \in Calls
        /\ CallAt(i - 1).name = "patientSearch"

RequestsIn(t) ==
    {k \in DOMAIN completionRequests : completionRequests[k].turn = t}

\* Positions of the user messages answered by an assistant message that
\* requests no function.
DirectAnswers ==
    {i \in DOMAIN messages :
        /\ messages[i].role = "user"
        /\ i < Len(messages)
        /\ messages[i + 1].function_call = Null}

\* What the store and the logs show of every such turn.
DirectAnswerTurns ==
    \A i \in DirectAnswers :
        /\ messages[i + 1].role = "assistant"
        /\ Cardinality(RequestsIn(TurnOf(i))) = 1
        /\ InvocationsIn(TurnOf(i)) = {}
        /\ (i + 2 <= Len(messages)) => messages[i + 2].role = "user"

\* C13: a turn whose first completion requests no function issues one
\* completion request, calls no func, makes no token or redox request, and
\* adds the user message and then the assistant message, whose content is
\* the turn's output.
C13_DirectAnswerTurn ==
    /\ [][DirectAnswerTurns']_vars
    /\ [][(/\ pc = "completion"
           /\ Len(messages') > Len(messages)
           /\ messages'[Len(messages) + 1].function_call = Null)
          => (/\ messages' = Append(messages, messages'[Len(messages) + 1])
              /\ Last(messages).role = "user"
              /\ pc' = "question"
              /\ output' = Last(messages').content
              /\ UNCHANGED <<completionRequests, tokenRequests, apiRequests,
                             invocations>>)]_vars
    /\ [][(pc = "question" /\ pc' = "completion")
          => UNCHANGED <<tokenRequests, apiRequests, invocations>>]_vars

C13_Witness ==
    /\ pc = "question"
    /\ turn = 1
    /\ Len(messages) = 3
    /\ messages[3].content = <<"It is sunny.">>
    /\ output = <<"It is sunny.">>
    /\ Len(completionRequests) = 1

UserMessages(msgs) == {i \in DOMAIN msgs : msgs[i].role = "user"}

\* What the logs show of every turn: one or two completion requests, the
\* first with the function declarations, a second without them and sent over
\* a store that ends in a function message of that turn; at most one func
\* call.
TurnShape ==
    \A t \in 1..turn :
        LET first == CHOOSE k \in RequestsIn(t) : \A j \in RequestsIn(t) : k <= j
        IN  /\ Cardinality(RequestsIn(t)) \in {1, 2}
            /\ completionRequests[first].functions
            /\ Last(completionRequests[first].messages).role = "user"
            /\ Cardinality(InvocationsIn(t)) <= 1
            /\ \A k \in RequestsIn(t) \ {first} :
                  LET sent == completionRequests[k].messages IN
                  /\ ~completionRequests[k].functions
                  /\ Last(sent).role = "function"
                  /\ Cardinality(UserMessages(sent)) = t
                  /\ sent[Len(sent) - 2].role = "user"
                  /\ Cardinality(InvocationsIn(t)) = 1

\* C14: a turn issues at most two completion requests and calls at most one
\* func; the first request declares the functions, the second declares none
\* and follows the turn's function message, and the assistant message that
\* answers the second is added and returned with no further dispatch.
C14_TwoPassTurn ==
    /\ [][TurnShape']_vars
    /\ [][(pc = "functionCompletion" /\ messages' # messages)
          => (/\ messages' = Append(messages, Last(messages'))
              /\ Last(messages').role = "assistant"
              /\ output' = Last(messages').content
              /\ pc' = "question"
              /\ UNCHANGED <<completionRequests, tokenRequests, apiRequests,
                             invocations>>)]_vars

C14_Witness ==
    /\ pc = "question"
    /\ turn = 2
    /\ Cardinality(RequestsIn(1)) = 2
    /\ Cardinality(RequestsIn(2)) = 2
    /\ Len(invocations) = 2
    /\ Last(messages).content = output

\* C15: in the history sent with any completion request, every assistant
\* message that requests a function is directly followed by a function
\* message with that function's name.
C15_NoUnansweredCall ==
    \A k \in DOMAIN completionRequests :
        LET sent == completionRequests[k].messages IN
        \A i \in DOMAIN sent :
            (sent[i].role = "assistant" /\ sent[i].function_call # Null) =>
                /\ i < Len(sent)
                /\ sent[i + 1].role = "function"
                /\ sent[i + 1].name = sent[i].function_call[1].name

LocalFuncs == {"getCurrentWeather", "getPatients"}
RedoxFuncs == {"patientSearch", "getKevaGreenDetails"}

RedoxCalls == {k \in DOMAIN invocations : invocations[k].name \in RedoxFuncs}

\* The func call that made the k-th token request.
RedoxCallNo(k) ==
    invocations[CHOOSE j \in RedoxCalls :
                    Cardinality({i \in RedoxCalls : i <= j}) = k]

\* What the logs show of the funcs' requests: one token request per call of
\* a redox func, one redox request per token granted, sent to the endpoint
\* of the func that asked for it.
NetworkPerFunc ==
    /\ Len(tokenRequests) = Cardinality(RedoxCalls)
    /\ Len(apiRequests) =
          Cardinality({k \in DOMAIN tokenResponses : Is2xx(tokenResponses[k])})
    /\ \A k \in DOMAIN apiRequests :
          /\ apiRequests[k].method = "POST"
          /\ RedoxCallNo(k).name = "patientSearch" =>
                /\ apiRequests[k].op = "post"
                /\ apiRequests[k].url = <<endpoint, "">>
          /\ RedoxCallNo(k).name = "getKevaGreenDetails" =>
                /\ apiRequests[k].op = "fhirPost"
                /\ apiRequests[k].url = <<fhirEndpoint, "Patient/_search">>

\* C16: a call of getCurrentWeather or getPatients makes no token request and
\* no redox request; a call of patientSearch or getKevaGreenDetails makes one
\* token request and then, with the token granted, one redox request: a POST
\* to the generic endpoint for patientSearch, to the FHIR endpoint for
\* getKevaGreenDetails.
C16_NetworkUseByFunc ==
    /\ [][NetworkPerFunc']_vars
    /\ [][invocations' # invocations =>
            /\ Len(invocations') = Len(invocations) + 1
            /\ Last(invocations').name \in LocalFuncs =>
                  /\ UNCHANGED <<tokenRequests, apiRequests>>
                  /\ pc' = "functionCompletion"
            /\ Last(invocations').name \in RedoxFuncs =>
                  /\ Len(tokenRequests') = Len(tokenRequests) + 1
                  /\ UNCHANGED apiRequests
                  /\ pc' = "token"]_vars

C16_Witness ==
    /\ Len(invocations) = 2
    /\ invocations[1].name = "getPatients"
    /\ invocations[2].name = "patientSearch"
    /\ Len(tokenRequests) = 1
    /\ Len(apiRequests) = 1
    /\ apiRequests[1].op = "post"
    /\ pc = "functionCompletion"

SpellsSentinel(input) == SpellsAnyCase(input, quit) \/ SpellsAnyCase(input, exit)

\* C17: an empty line adds no message, requests no completion and leaves the
\* loop at its prompt; any other line that is not quit or exit adds one user
\* message holding the line and then requests a completion over the store.
C17_EmptyLineIsNoTurn ==
    [][pc = "question" =>
         /\ lastInput' = << >> =>
               /\ UNCHANGED <<messages, completionRequests, turn>>
               /\ pc' = "question"
         /\ (lastInput' # << >> /\ ~SpellsSentinel(lastInput')) =>
               /\ messages' = Append(messages,
                                     [role |-> "user", content |-> lastInput',
                                      name |-> "", function_call |-> << >>])
               /\ Len(completionRequests') = Len(completionRequests) + 1
               /\ Last(completionRequests').messages = messages'
               /\ pc' = "completion"]_vars

C17_Witness ==
    /\ pc = "question"
    /\ lastInput = << >>
    /\ turn = 1
    /\ UserMessages(messages) = {2}
    /\ messages[2].content = <<"h", "i">>
    /\ Len(completionRequests) = 1

\* C18: when the key material cannot be read the process ends at once: no
\* assertion exists, and no token request, redox request or turn is ever
\* made; every token request that is made carries the assertion signed at
\* set-up.
C18_SigningFailureIsFatal ==
    /\ error.name = "KeyError" =>
          /\ pc = "crashed"
          /\ signedAssertion = Null
          /\ messages = << >>
          /\ turn = 0
          /\ lastInput = Null
          /\ completionRequests = << >>
    /\ signedAssertion = Null =>
          /\ tokenRequests = << >>
          /\ apiRequests = << >>
    /\ \A k \in DOMAIN tokenRequests :
          tokenRequests[k].client_assertion = signedAssertion[1]

C18_Witness ==
    /\ pc = "crashed"
    /\ error.name = "KeyError"
    /\ signedAssertion = Null

\* A turn is in progress: completeMessages awaits a response.
InTurn == pc \in {"completion", "token", "api", "functionCompletion"}

\* C19: when every network call gets its response, every turn that has
\* started ends, back at the prompt or with the process ended by an error.
C19_TurnEnds == InTurn ~> (pc \in {"question", "crashed"})

C19_Witness ==
    /\ pc = "question"
    /\ turn = 2
    /\ Len(apiResponses) = 2
    /\ Len(completionRequests) = 4

====
